---- MODULE Spec2Model ----
(***************************************************************************)
(* A model of easy_sqs.py: the command-line publisher that resolves its    *)
(* parameters from a properties file and command-line overrides, loads a   *)
(* message body and a JSON attribute mapping, and sends one or more        *)
(* messages to an SQS queue.                                               *)
(*                                                                         *)
(* Python strings are sequences of one-character strings, so that          *)
(* str.endswith, int() and str() are computed rather than assumed.         *)
(* Python's None is the value None below, which is no string: its single   *)
(* element is not a character.                                             *)
(***************************************************************************)
EXTENDS Integers, Sequences, FiniteSets, TLC

(***************************************************************************)
(* Bounds of the model.                                                    *)
(***************************************************************************)
\* largest value of fifo_num_of_messages that the inputs spell out
MaxCount == 3
\* random.randint(1, 100) is explored over 1..MaxGroup
MaxGroup == 3

(***************************************************************************)
(* Values and strings.                                                     *)
(***************************************************************************)
None == <<"None">>

\* a local of main that holds a dictionary or a namespace, before it is
\* assigned
Unassigned == [unassigned |-> TRUE]

Digits == <<"0", "1", "2", "3", "4", "5", "6", "7", "8", "9">>

DigitChars == {Digits[i] : i \in 1..10}

DigitVal(c) == (CHOOSE i \in 1..10 : Digits[i] = c) - 1

\* str(n) for an integer n
RECURSIVE StrNat(_)
StrNat(n) == IF n < 10 THEN <<Digits[n + 1]>>
             ELSE StrNat(n \div 10) \o <<Digits[(n % 10) + 1]>>

str(n) == IF n < 0 THEN <<"-">> \o StrNat(0 - n) ELSE StrNat(n)

\* s.endswith(suffix)
endswith(s, suffix) ==
    /\ Len(s) >= Len(suffix)
    /\ SubSeq(s, Len(s) - Len(suffix) + 1, Len(s)) = suffix

\* s.strip() restricted to the blank character
RECURSIVE lstrip(_)
lstrip(s) == IF s # <<>> /\ Head(s) = " " THEN lstrip(Tail(s)) ELSE s

RECURSIVE rstrip(_)
rstrip(s) == IF s # <<>> /\ s[Len(s)] = " "
             THEN rstrip(SubSeq(s, 1, Len(s) - 1)) ELSE s

strip(s) == rstrip(lstrip(s))

\* the digits of an integer literal: digits, single underscores between them
IsDigitString(s) ==
    /\ s # <<>>
    /\ \A i \in 1..Len(s) : s[i] \in DigitChars \cup {"_"}
    /\ s[1] # "_"
    /\ s[Len(s)] # "_"
    /\ \A i \in 1..(Len(s) - 1) : ~(s[i] = "_" /\ s[i + 1] = "_")

RECURSIVE DigitsValue(_, _)
DigitsValue(s, acc) ==
    IF s = <<>> THEN acc
    ELSE IF Head(s) = "_" THEN DigitsValue(Tail(s), acc)
    ELSE DigitsValue(Tail(s), acc * 10 + DigitVal(Head(s)))

\* int(x): the exception it raises, or the integer it returns
int(x) ==
    IF x = None THEN [raises |-> "TypeError", value |-> 0]
    ELSE LET t == strip(x)
             neg == t # <<>> /\ Head(t) = "-"
             signed == t # <<>> /\ Head(t) \in {"-", "+"}
             body == IF signed THEN Tail(t) ELSE t
         IN  IF IsDigitString(body)
             THEN [raises |-> "",
                   value |-> IF neg THEN 0 - DigitsValue(body, 0)
                             ELSE DigitsValue(body, 0)]
             ELSE [raises |-> "ValueError", value |-> 0]

\* file.read() of a text-mode file: universal newlines
RECURSIVE TextRead(_)
TextRead(raw) ==
    IF raw = <<>> THEN <<>>
    ELSE IF Head(raw) = "\r"
         THEN IF Len(raw) >= 2 /\ raw[2] = "\n"
              THEN <<"\n">> \o TextRead(Tail(Tail(raw)))
              ELSE <<"\n">> \o TextRead(Tail(raw))
         ELSE <<Head(raw)>> \o TextRead(Tail(raw))

(***************************************************************************)
(* The program's constants and the string literals of the inputs.          *)
(***************************************************************************)
list_of_params == <<"queue_url", "aws_profile", "message_body",
                    "message_attributes", "s3_bucket", "fifo_test",
                    "fifo_num_of_messages">>

ParamNames == {list_of_params[i] : i \in 1..Len(list_of_params)}

\* a key that a section of the properties file does not hold
Absent == <<"Absent">>

S_true == <<"t", "r", "u", "e">>
S_True == <<"T", "r", "u", "e">>
S_false == <<"f", "a", "l", "s", "e">>
S_fifo == <<".", "f", "i", "f", "o">>
S_msg_group == <<"m", "s", "g", "-", "g", "r", "o", "u", "p", "-">>
S_empty == <<>>
S_q_std == <<"q">>
S_q_fifo == <<"q", ".", "f", "i", "f", "o">>
S_q_fifo_slash == <<"q", ".", "f", "i", "f", "o", "/">>
S_abc == <<"a", "b", "c">>
S_minus1 == <<"-", "1">>
S_blank2 == <<" ", "2", " ">>
S_profile == <<"d", "e", "v">>
S_bucket == <<"b", "k", "t">>
S_props == <<"p", ".", "i", "n", "i">>
S_body == <<"b", ".", "x", "m", "l">>
S_attrs == <<"a", ".", "j", "s", "o", "n">>
S_nofile == <<"n", "o", "f", "i", "l", "e">>
S_uuid == <<"u", "u", "i", "d", "-">>

\* the body files: raw contents, one with carriage returns
BodyRaws == {<<"<", "a", "/", ">">>, <<"x", "\r", "\n", "y", "\r">>}

\* attribute descriptors and attribute mappings of the attributes file
Desc(type, value) == [DataType |-> type, StringValue |-> value]

AttrObjects ==
    { <<>>,
      [traceId |-> Desc("String", S_abc)],
      [messageNum |-> Desc("Number", <<"7">>)],
      [traceId |-> Desc("String", S_abc), messageNum |-> Desc("Number", <<"7">>)] }

\* what json.load makes of a file: a decode error, a value that is no
\* object (an array), or an object
JsonResults ==
    {[kind |-> "JSONDecodeError", value |-> <<>>],
     [kind |-> "array", value |-> <<>>]}
    \cup {[kind |-> "object", value |-> o] : o \in AttrObjects}

\* the spellings of fifo_num_of_messages
CountStrings == {str(i) : i \in 0..MaxCount} \cup {S_minus1, S_blank2, S_abc, S_empty}

(***************************************************************************)
(* The inputs of a run: the command line and the files it names.           *)
(***************************************************************************)
\* a section of the properties file: each recognized key, or Absent
SectionOf(qu, ap, mb, ma, s3, ft, fn) ==
    [queue_url |-> qu, aws_profile |-> ap, message_body |-> mb,
     message_attributes |-> ma, s3_bucket |-> s3, fifo_test |-> ft,
     fifo_num_of_messages |-> fn]

NoSection == SectionOf(Absent, Absent, Absent, Absent, Absent, Absent, Absent)

\* what configparser makes of the properties file
IniOk(defaults, sections) ==
    [kind |-> "ok", defaults |-> defaults, sections |-> sections]

IniError == [kind |-> "error", defaults |-> NoSection, sections |-> <<>>]

\* a command line argparse accepts: -p, -s and the --<param> overrides
ArgvOf(section, qu, ap, mb, ma, s3, ft, fn) ==
    [valid |-> TRUE, properties |-> S_props, properties_section |-> section,
     queue_url |-> qu, aws_profile |-> ap, message_body |-> mb,
     message_attributes |-> ma, s3_bucket |-> s3, fifo_test |-> ft,
     fifo_num_of_messages |-> fn]

\* a command line argparse rejects (-p missing, unknown flag)
ArgvInvalid ==
    [valid |-> FALSE, properties |-> None, properties_section |-> "DEFAULT",
     queue_url |-> None, aws_profile |-> None, message_body |-> None,
     message_attributes |-> None, s3_bucket |-> None, fifo_test |-> None,
     fifo_num_of_messages |-> None]

\* the file system: the existing paths and what reading each yields
Missing == [kind |-> "missing"]

\* a text file and its raw contents
TextFile(raw) == [kind |-> "text", raw |-> raw]

FsOf(props, body, attrs) ==
    [path \in {S_props, S_body, S_attrs} |->
        IF path = S_props THEN props
        ELSE IF path = S_body THEN body ELSE attrs]

exists(files, path) == path \in DOMAIN files /\ files[path].kind # "missing"

\* inputs that exercise the dispatcher
Argvs ==
    {ArgvInvalid} \cup
    {ArgvOf("DEFAULT", qu, ap, None, None, None, ft, fn) :
        qu \in {None, S_q_std, S_q_fifo_slash},
        ap \in {None, S_profile},
        ft \in {None, S_True, S_false},
        fn \in {None} \cup (CountStrings \ {S_abc})}

Inis ==
    {IniError} \cup
    {IniOk(SectionOf(qu, Absent, mb, ma, Absent, ft, fn), <<>>) :
        qu \in {Absent, S_q_fifo},
        mb \in {Absent, S_body},
        ma \in {Absent, S_attrs},
        ft \in {Absent, S_true},
        fn \in {Absent, S_abc}}

FileSystems ==
    {FsOf(p, b, a) :
        p \in {Missing} \cup Inis,
        b \in {Missing} \cup {TextFile(r) : r \in BodyRaws},
        a \in {Missing} \cup JsonResults}

\* inputs that exercise the parameter resolver: every key may be set in the
\* DEFAULT section, in the section S1 and on the command line
S_q_other == <<"o">>
S_profile2 == <<"p", "r", "o", "d">>
S_bucket2 == <<"b", "2">>
S_one == <<"1">>
S_two == <<"2">>

SectionS1a == SectionOf(S_q_other, Absent, Absent, Absent, S_bucket2, S_false, Absent)

SectionS1b == SectionOf(Absent, S_profile2, S_body, S_attrs, Absent, Absent, S_one)

ArgvsR ==
    {ArgvInvalid} \cup
    {ArgvOf(sn, qu, ap, mb, ma, s3, ft, fn) :
        sn \in {"DEFAULT", "S1", "S2"},
        qu \in {None, S_q_std},
        ap \in {None, S_profile},
        mb \in {None, S_nofile},
        ma \in {None, S_nofile},
        s3 \in {None, S_empty},
        ft \in {None, S_true},
        fn \in {None, S_two}}

InisR ==
    {IniError} \cup
    {IniOk(SectionOf(qu, ap, mb, ma, s3, ft, fn), sections) :
        qu \in {Absent, S_q_fifo},
        ap \in {Absent, S_profile2},
        mb \in {Absent, S_body},
        ma \in {Absent, S_attrs},
        s3 \in {Absent, S_bucket},
        ft \in {Absent, S_True},
        fn \in {Absent, S_one},
        sections \in {<<>>, [S1 |-> SectionS1a], [S1 |-> SectionS1b]}}

FileSystemsR ==
    {FsOf(p, TextFile(<<"<", "a", "/", ">">>),
          [kind |-> "object", value |-> [traceId |-> Desc("String", S_abc)]]) :
        p \in {Missing} \cup InisR}

(***************************************************************************)
(* The state of a run.                                                     *)
(***************************************************************************)
VARIABLES
    argv,               \* sys.argv
    fs,                 \* the files
    pc,                 \* the statement of main that runs next
    args,               \* main: args
    params,             \* main: params
    message_body,       \* main: message_body
    message_attributes, \* main: message_attributes
    message_group_id,   \* send_message_to_sqs: message_group_id
    num_of_iterations,  \* send_message_to_sqs: num_of_iterations
    n,                  \* send_message_to_sqs: n
    issued,             \* the values uuid.uuid4() has returned
    sent,               \* the send_message calls made, in order
    error,              \* the exception that ended the run, "" if none
    exit_code           \* the process's exit status, None while it runs

vars == <<argv, fs, pc, args, params, message_body, message_attributes,
          message_group_id, num_of_iterations, n, issued, sent, error,
          exit_code>>

InitFrom(argvs, filesystems) ==
    /\ argv \in argvs
    /\ fs \in filesystems
    /\ pc = "parse_arguments"
    /\ args = Unassigned
    /\ params = Unassigned
    /\ message_body = None
    /\ message_attributes = Unassigned
    /\ message_group_id = None
    /\ num_of_iterations = 1
    /\ n = 0
    /\ issued = {}
    /\ sent = <<>>
    /\ error = ""
    /\ exit_code = None

Init == InitFrom(Argvs, FileSystems)

InitResolver == InitFrom(ArgvsR, FileSystemsR)

\* sys.exit(code), also through main's handler of Exception
Exit(code, exception) ==
    /\ pc' = "exited"
    /\ exit_code' = code
    /\ error' = exception

(***************************************************************************)
(* main, lines 167-168: parse_arguments.  argparse ends the process with   *)
(* status 2 on a command line it rejects; SystemExit is no Exception, so   *)
(* main's handler lets it through.                                         *)
(***************************************************************************)
parse_arguments ==
    /\ pc = "parse_arguments"
    /\ IF argv.valid
       THEN /\ args' = argv
            /\ pc' = "load_parameters_from_properties"
            /\ UNCHANGED <<error, exit_code>>
       ELSE /\ Exit(2, "SystemExit")
            /\ UNCHANGED args
    /\ UNCHANGED <<argv, fs, params, message_body, message_attributes,
                   message_group_id, num_of_iterations, n, issued, sent>>

(***************************************************************************)
(* load_parameters_from_properties, lines 118-135 (main, line 172).        *)
(***************************************************************************)
\* config.get(section, option, fallback=fallback): the section's own value,
\* else the DEFAULT section's, else the fallback; a section the file does
\* not have yields the fallback
ConfigGet(ini, section, option, fallback) ==
    IF section # "DEFAULT" /\ section \notin DOMAIN ini.sections
    THEN fallback
    ELSE IF section # "DEFAULT" /\ ini.sections[section][option] # Absent
    THEN ini.sections[section][option]
    ELSE IF ini.defaults[option] # Absent
    THEN ini.defaults[option]
    ELSE fallback

\* the dictionary the loop of lines 129-132 builds
LoadedParams(ini, section) ==
    [param \in ParamNames |-> ConfigGet(ini, section, param, None)]

load_parameters_from_properties ==
    /\ pc = "load_parameters_from_properties"
    /\ IF ~exists(fs, args.properties)
       THEN /\ Exit(1, "FileNotFoundError")
            /\ UNCHANGED params
       ELSE IF fs[args.properties].kind = "error"
       THEN /\ Exit(1, "configparser.Error")
            /\ UNCHANGED params
       ELSE /\ params' = LoadedParams(fs[args.properties],
                                      args.properties_section)
            /\ pc' = "override_parameters_with_args"
            /\ UNCHANGED <<error, exit_code>>
    /\ UNCHANGED <<argv, fs, args, message_body, message_attributes,
                   message_group_id, num_of_iterations, n, issued, sent>>

(***************************************************************************)
(* override_parameters_with_args, lines 137-150 (main, line 176).          *)
(***************************************************************************)
\* getattr(args, param, None)
getattr(namespace, param, default) ==
    IF param \in DOMAIN namespace THEN namespace[param] ELSE default

\* variant: the override is tested for truth, so an empty value does not
\* override
OverriddenParams_Truthy(file_params, namespace) ==
    [param \in ParamNames |->
        IF getattr(namespace, param, None) \notin {None, S_empty}
        THEN getattr(namespace, param, None)
        ELSE file_params[param]]

\* variant: the argument is stored whether or not it was given
OverriddenParams_Always(file_params, namespace) ==
    [param \in ParamNames |-> getattr(namespace, param, None)]

\* the dictionary after the loop of lines 145-149
OverriddenParams(file_params, namespace) ==
    [param \in ParamNames |->
        IF getattr(namespace, param, None) # None
        THEN getattr(namespace, param, None)
        ELSE file_params[param]]

override_parameters_with_args ==
    /\ pc = "override_parameters_with_args"
    /\ params' = OverriddenParams(params, args)
    /\ pc' = "load_message_body"
    /\ UNCHANGED <<argv, fs, args, message_body, message_attributes,
                   message_group_id, num_of_iterations, n, issued, sent,
                   error, exit_code>>

(***************************************************************************)
(* load_message_body, lines 87-99 (main, line 178).  open(None) raises     *)
(* TypeError, which main's handler turns into exit status 1.               *)
(***************************************************************************)
\* variant: a missing file is logged and an empty body returned
load_message_body_NoExit ==
    /\ pc = "load_message_body"
    /\ LET file_path == params["message_body"]
       IN  IF file_path = None
           THEN /\ Exit(1, "TypeError")
                /\ UNCHANGED message_body
           ELSE /\ message_body' = IF exists(fs, file_path)
                                   THEN TextRead(fs[file_path].raw)
                                   ELSE S_empty
                /\ pc' = "load_message_attributes"
                /\ UNCHANGED <<error, exit_code>>
    /\ UNCHANGED <<argv, fs, args, params, message_attributes,
                   message_group_id, num_of_iterations, n, issued, sent>>

load_message_body ==
    /\ pc = "load_message_body"
    /\ LET file_path == params["message_body"]
       IN  IF file_path = None
           THEN /\ Exit(1, "TypeError")
                /\ UNCHANGED message_body
           ELSE IF ~exists(fs, file_path)
           THEN /\ Exit(1, "FileNotFoundError")
                /\ UNCHANGED message_body
           ELSE /\ message_body' = TextRead(fs[file_path].raw)
                /\ pc' = "load_message_attributes"
                /\ UNCHANGED <<error, exit_code>>
    /\ UNCHANGED <<argv, fs, args, params, message_attributes,
                   message_group_id, num_of_iterations, n, issued, sent>>

(***************************************************************************)
(* load_message_attributes, lines 101-116 (main, line 179).                *)
(***************************************************************************)
load_message_attributes ==
    /\ pc = "load_message_attributes"
    /\ LET file_path == params["message_attributes"]
       IN  IF file_path = None
           THEN /\ Exit(1, "TypeError")
                /\ UNCHANGED message_attributes
           ELSE IF ~exists(fs, file_path)
           THEN /\ Exit(1, "FileNotFoundError")
                /\ UNCHANGED message_attributes
           ELSE IF fs[file_path].kind = "JSONDecodeError"
           THEN /\ Exit(1, "JSONDecodeError")
                /\ UNCHANGED message_attributes
           ELSE /\ message_attributes' = fs[file_path]
                /\ pc' = "send_message_to_sqs"
                /\ UNCHANGED <<error, exit_code>>
    /\ UNCHANGED <<argv, fs, args, params, message_body,
                   message_group_id, num_of_iterations, n, issued, sent>>

(***************************************************************************)
(* send_message_to_sqs, lines 60-72: the session and client, the group     *)
(* identifier and the iteration count.                                     *)
(***************************************************************************)
\* dict.get(key, default)
dict_get(d, key, default) == IF key \in DOMAIN d THEN d[key] ELSE default

\* random.randint(1, 100)
GroupNumbers == 1..MaxGroup

\* line 68
GroupId(r) == S_msg_group \o str(r)

\* variant: the flag is compared without regard to case
IterationCount_AnyCase(p) ==
    IF dict_get(p, "fifo_test", None) \in {S_true, S_True}
    THEN int(dict_get(p, "fifo_num_of_messages", 1))
    ELSE [raises |-> "", value |-> 1]

\* lines 69-71: the exception int() raises, or the count
IterationCount(p) ==
    IF dict_get(p, "fifo_test", None) = S_true
    THEN int(dict_get(p, "fifo_num_of_messages", 1))
    ELSE [raises |-> "", value |-> 1]

send_message_to_sqs_setup ==
    /\ pc = "send_message_to_sqs"
    /\ \/ \* boto3 cannot build the session or the client (lines 61-65)
          /\ Exit(1, "BotoCoreError")
          /\ UNCHANGED <<message_group_id, num_of_iterations>>
       \/ \E r \in GroupNumbers :
             LET count == IterationCount(params)
             IN  /\ message_group_id' = GroupId(r)
                 /\ IF count.raises # ""
                    THEN /\ Exit(1, count.raises)
                         /\ UNCHANGED num_of_iterations
                    ELSE /\ num_of_iterations' = count.value
                         /\ pc' = "for"
                         /\ UNCHANGED <<error, exit_code>>
    /\ n' = 0
    /\ UNCHANGED <<argv, fs, args, params, message_body, message_attributes,
                   issued, sent>>

(***************************************************************************)
(* send_message_to_sqs, lines 73-84: one iteration of the loop.            *)
(***************************************************************************)
\* uuid.uuid4(): a value it has not returned before
UuidPool == 1..(MaxCount + 1)

FreshUuids(used) == UuidPool \ used

\* str(uuid)
UuidStr(u) == S_uuid \o str(u)

\* d[key] = value
dict_set(d, key, value) ==
    [k \in DOMAIN d \cup {key} |-> IF k = key THEN value ELSE d[k]]

\* variant: the stamp is the 0-based index
Stamped_ZeroBased(attributes, i) ==
    dict_set(attributes, "messageNum", Desc("String", str(i)))

\* variant: the stamp only fills a missing entry and never overwrites one
Stamped_SetDefault(attributes, i) ==
    IF "messageNum" \in DOMAIN attributes THEN attributes
    ELSE dict_set(attributes, "messageNum", Desc("String", str(i + 1)))

\* lines 76-79
Stamped(attributes, i) ==
    dict_set(attributes, "messageNum", Desc("String", str(i + 1)))

\* variant: the queue is taken for ordered when its URL contains ".fifo"
SendKwargs_Contains(queue_url, body, attributes, dedup_id, group_id) ==
    IF \E k \in 1..Len(queue_url) :
          k + Len(S_fifo) - 1 <= Len(queue_url)
          /\ SubSeq(queue_url, k, k + Len(S_fifo) - 1) = S_fifo
    THEN [QueueUrl |-> queue_url, MessageBody |-> body,
          MessageAttributes |-> attributes,
          MessageDeduplicationId |-> dedup_id, MessageGroupId |-> group_id]
    ELSE [QueueUrl |-> queue_url, MessageBody |-> body,
          MessageAttributes |-> attributes]

\* variant: the group identifier is passed as the deduplication token too
SendKwargs_GroupAsDedup(queue_url, body, attributes, dedup_id, group_id) ==
    IF endswith(queue_url, S_fifo)
    THEN [QueueUrl |-> queue_url, MessageBody |-> body,
          MessageAttributes |-> attributes,
          MessageDeduplicationId |-> group_id, MessageGroupId |-> group_id]
    ELSE [QueueUrl |-> queue_url, MessageBody |-> body,
          MessageAttributes |-> attributes]

\* lines 81-83: the keyword arguments of send_message
SendKwargs(queue_url, body, attributes, dedup_id, group_id) ==
    IF endswith(queue_url, S_fifo)
    THEN [QueueUrl |-> queue_url, MessageBody |-> body,
          MessageAttributes |-> attributes,
          MessageDeduplicationId |-> dedup_id, MessageGroupId |-> group_id]
    ELSE [QueueUrl |-> queue_url, MessageBody |-> body,
          MessageAttributes |-> attributes]

\* variant: a failed send is caught and the iteration repeated
AfterSend_Retry(raised) ==
    IF raised
    THEN UNCHANGED <<n, pc, error, exit_code>>
    ELSE /\ n' = n + 1
         /\ UNCHANGED <<pc, error, exit_code>>

\* what follows a send_message call: an exception leaves the loop and the
\* function and reaches main's handler (lines 183-185); a response is
\* logged (line 84) and the loop goes on
AfterSend(raised) ==
    IF raised
    THEN /\ Exit(1, "ClientError")
         /\ UNCHANGED n
    ELSE /\ n' = n + 1
         /\ UNCHANGED <<pc, error, exit_code>>

send_message_to_sqs_iteration ==
    /\ pc = "for"
    /\ n < num_of_iterations
    /\ \E u \in FreshUuids(issued) :
          /\ issued' = issued \cup {u}
          /\ IF message_attributes.kind # "object"
             THEN \* item assignment on a value that is no dict
                  /\ Exit(1, "TypeError")
                  /\ UNCHANGED <<message_attributes, n, sent>>
             ELSE LET attributes == Stamped(message_attributes.value, n)
                      queue_url == dict_get(params, "queue_url", None)
                  IN  /\ message_attributes' =
                             [message_attributes EXCEPT !.value = attributes]
                      /\ IF queue_url = None
                         THEN \* None has no endswith
                              /\ Exit(1, "AttributeError")
                              /\ UNCHANGED <<n, sent>>
                         ELSE \E raised \in BOOLEAN :
                                 /\ sent' = Append(sent,
                                        [kwargs |-> SendKwargs(queue_url,
                                             message_body, attributes,
                                             UuidStr(u), message_group_id),
                                         raised |-> raised])
                                 /\ AfterSend(raised)
    /\ UNCHANGED <<argv, fs, args, params, message_body, message_group_id,
                   num_of_iterations>>

(***************************************************************************)
(* send_message_to_sqs returns and main ends: exit status 0.               *)
(***************************************************************************)
send_message_to_sqs_return ==
    /\ pc = "for"
    /\ n >= num_of_iterations
    /\ pc' = "done"
    /\ exit_code' = 0
    /\ UNCHANGED <<argv, fs, args, params, message_body, message_attributes,
                   message_group_id, num_of_iterations, n, issued, sent,
                   error>>

Next ==
    \/ parse_arguments
    \/ load_parameters_from_properties
    \/ override_parameters_with_args
    \/ load_message_body
    \/ load_message_attributes
    \/ send_message_to_sqs_setup
    \/ send_message_to_sqs_iteration
    \/ send_message_to_sqs_return

Spec == Init /\ [][Next]_vars

SpecResolver == InitResolver /\ [][Next]_vars

(***************************************************************************)
(* Vocabulary of the properties.                                           *)
(***************************************************************************)
\* the process has ended
Terminated == pc \in {"done", "exited"}

\* params is the resolved record: the file's values with the overrides
Resolved == params # Unassigned /\ pc # "override_parameters_with_args"

\* main has called send_message_to_sqs
Dispatched == Resolved /\ message_attributes # Unassigned

\* the session and the client were built
SessionBuilt == Dispatched /\ pc # "send_message_to_sqs" /\ error # "BotoCoreError"

NoSendFailed == \A i \in 1..Len(sent) : ~sent[i].raised

\* the attributes the i-th send carried
AttributesOf(i) == sent[i].kwargs.MessageAttributes

\* the i-th send carried the sequence stamp k
CarriesStamp(i, k) ==
    /\ "messageNum" \in DOMAIN AttributesOf(i)
    /\ AttributesOf(i)["messageNum"] = [DataType |-> "String", StringValue |-> str(k)]

\* the ordered-queue fields among the keyword arguments of the i-th send
FifoFields(i) ==
    DOMAIN sent[i].kwargs \cap {"MessageDeduplicationId", "MessageGroupId"}

\* s is some prefix followed by ".fifo"
HasFifoSuffix(s) ==
    s # None /\ \E k \in 0..Len(s) : SubSeq(s, 1, k) \o S_fifo = s

\* the attributes are a JSON object and the queue URL is set, so that an
\* iteration reaches its send
IterationCanSend ==
    /\ message_attributes.kind = "object"
    /\ params["queue_url"] # None

\* the value config.get reads for a key: the selected section's, else the
\* DEFAULT section's; None when neither holds it or the section is unknown
FileValue(key) ==
    LET ini == fs[argv.properties]
        section == argv.properties_section
        known == section = "DEFAULT" \/ section \in DOMAIN ini.sections
        own == IF section \in DOMAIN ini.sections
               THEN ini.sections[section][key] ELSE Absent
        value == IF own # Absent THEN own ELSE ini.defaults[key]
    IN  IF known /\ value # Absent THEN value ELSE None

(***************************************************************************)
(* C1.                                                                     *)
(***************************************************************************)
\* fifo_test is "true" and fifo_num_of_messages parses to an integer >= 0
C1_Case ==
    /\ Dispatched
    /\ params["fifo_test"] = S_true
    /\ int(params["fifo_num_of_messages"]).raises = ""
    /\ int(params["fifo_num_of_messages"]).value >= 0

\* C1 as stated: when fifo_test is "true", fifo_num_of_messages parses to
\* N >= 0 and no send fails, the run makes exactly N sends and the k-th
\* carries messageNum = str(k).  The statement is taken for the runs whose
\* session and client were built, the reading most favourable to it.
C1_Original ==
    (Terminated /\ C1_Case /\ SessionBuilt /\ NoSendFailed) =>
        /\ Len(sent) = int(params["fifo_num_of_messages"]).value
        /\ \A k \in 1..Len(sent) : CarriesStamp(k, k)

\* C1 amended: under the same conditions the k-th send always carries
\* messageNum = str(k) and there are never more than N sends; there are
\* exactly N at the end of the run provided also that the session and the
\* client were built and, when N >= 1, that the attributes are a JSON
\* object and queue_url is set.
C1_Amended ==
    C1_Case =>
        LET N == int(params["fifo_num_of_messages"]).value
        IN  /\ \A k \in 1..Len(sent) : CarriesStamp(k, k)
            /\ Len(sent) <= N
            /\ (/\ Terminated
                /\ NoSendFailed
                /\ SessionBuilt
                /\ (N >= 1 => IterationCanSend)) => Len(sent) = N

\* C1 witness: a run with fifo_test "true" that completed two or more sends
C1_Witness ==
    /\ pc = "done"
    /\ C1_Case
    /\ Len(sent) >= 2
    /\ Len(sent) = int(params["fifo_num_of_messages"]).value

(***************************************************************************)
(* C2.                                                                     *)
(***************************************************************************)
\* C2: every send carries MessageDeduplicationId and MessageGroupId, both
\* non-empty, when the resolved queue_url ends with ".fifo", and carries
\* neither when it does not.
C2_FifoFieldsIffSuffix ==
    \A i \in 1..Len(sent) :
        IF HasFifoSuffix(params["queue_url"])
        THEN /\ FifoFields(i) = {"MessageDeduplicationId", "MessageGroupId"}
             /\ Len(sent[i].kwargs.MessageDeduplicationId) > 0
             /\ Len(sent[i].kwargs.MessageGroupId) > 0
        ELSE FifoFields(i) = {}

\* C2 witness: a send to a queue whose URL ends with ".fifo"
C2_Witness ==
    /\ Len(sent) >= 1
    /\ HasFifoSuffix(params["queue_url"])
    /\ FifoFields(1) = {"MessageDeduplicationId", "MessageGroupId"}

(***************************************************************************)
(* C3.                                                                     *)
(***************************************************************************)
BodyFileMissing ==
    params["message_body"] # None /\ ~exists(fs, params["message_body"])

AttributesFileMissing ==
    /\ params["message_attributes"] # None
    /\ ~exists(fs, params["message_attributes"])

AttributesFileMalformed ==
    /\ params["message_attributes"] # None
    /\ exists(fs, params["message_attributes"])
    /\ fs[params["message_attributes"]].kind = "JSONDecodeError"

\* C3: when the body file is missing, or the attributes file is missing or
\* is not valid JSON, the run never reaches the dispatcher, makes no send,
\* and ends with exit status 1.
C3_LoadFailureIsFatal ==
    (Resolved /\ (BodyFileMissing \/ AttributesFileMissing
                  \/ AttributesFileMalformed)) =>
        /\ sent = <<>>
        /\ pc \in {"load_message_body", "load_message_attributes", "exited"}
        /\ pc = "exited" => exit_code = 1

\* C3 witness: a run ended by an attributes file that is not valid JSON
C3_Witness ==
    /\ pc = "exited"
    /\ Resolved
    /\ AttributesFileMalformed
    /\ error = "JSONDecodeError"
    /\ exit_code = 1

(***************************************************************************)
(* C4.                                                                     *)
(***************************************************************************)
\* C4: when fifo_test is "true" and fifo_num_of_messages is absent or does
\* not parse as an integer, the count is 1: a run in which nothing else
\* fails ends with exit status 0 after exactly one send.
C4_CountDefaultsToOne ==
    (/\ Terminated
     /\ Dispatched
     /\ params["fifo_test"] = S_true
     /\ int(params["fifo_num_of_messages"]).raises # ""
     /\ error # "BotoCoreError"
     /\ IterationCanSend
     /\ NoSendFailed) =>
        /\ exit_code = 0
        /\ Len(sent) = 1

(***************************************************************************)
(* C5.                                                                     *)
(***************************************************************************)
\* C5: for every recognized key given on the command line, the resolved
\* record holds the command-line value, whatever the file gave.
C5_OverrideWins ==
    Resolved =>
        \A key \in ParamNames : argv[key] # None => params[key] = argv[key]

\* C5 witness: an empty --s3_bucket replaced the bucket the file named
C5_Witness ==
    /\ Resolved
    /\ argv["s3_bucket"] = S_empty
    /\ FileValue("s3_bucket") = S_bucket
    /\ params["s3_bucket"] = S_empty

(***************************************************************************)
(* C6.                                                                     *)
(***************************************************************************)
\* C6: for every recognized key not given on the command line, the resolved
\* record holds the value read from the file, None when the file has none,
\* and override_parameters_with_args leaves the key unchanged.
C6_FileValueKept ==
    /\ [](Resolved =>
            \A key \in ParamNames :
                argv[key] = None => params[key] = FileValue(key))
    /\ [][pc = "override_parameters_with_args" =>
            \A key \in ParamNames :
                args[key] = None => params'[key] = params[key]]_vars

\* C6 witness: no override for queue_url, read from section S1, and
\* fifo_num_of_messages absent from the file and the command line
C6_Witness ==
    /\ Resolved
    /\ argv.properties_section = "S1"
    /\ argv["queue_url"] = None
    /\ params["queue_url"] = S_q_other
    /\ argv["fifo_num_of_messages"] = None
    /\ params["fifo_num_of_messages"] = None
    /\ argv["fifo_test"] # None

(***************************************************************************)
(* C7.                                                                     *)
(***************************************************************************)
\* C7: a send that fails is the last send of the run, which has then ended
\* with exit status 1 (no retry, no later send), and the record of the
\* sends made before it only grows.
C7_FailedSendIsFatal ==
    /\ [](\A i \in 1..Len(sent) :
            sent[i].raised =>
                /\ i = Len(sent)
                /\ pc = "exited"
                /\ exit_code = 1)
    /\ [][/\ Len(sent') >= Len(sent)
          /\ SubSeq(sent', 1, Len(sent)) = sent]_vars

\* C7 witness: the third send failed after two had succeeded
C7_Witness ==
    /\ Len(sent) = 3
    /\ ~sent[1].raised
    /\ ~sent[2].raised
    /\ sent[3].raised
    /\ pc = "exited"

(***************************************************************************)
(* C8.                                                                     *)
(***************************************************************************)
\* C8: on a ".fifo" queue every send of the run carries the one group
\* identifier drawn before the loop, and any two different sends carry
\* different deduplication tokens.
C8_GroupSharedDedupDistinct ==
    \A i, j \in 1..Len(sent) :
        (FifoFields(i) # {} /\ FifoFields(j) # {}) =>
            /\ sent[i].kwargs.MessageGroupId = message_group_id
            /\ sent[i].kwargs.MessageGroupId = sent[j].kwargs.MessageGroupId
            /\ i # j => sent[i].kwargs.MessageDeduplicationId
                            # sent[j].kwargs.MessageDeduplicationId

\* C8 witness: three sends to a ".fifo" queue
C8_Witness ==
    /\ Len(sent) = 3
    /\ HasFifoSuffix(params["queue_url"])
    /\ \A i \in 1..3 : FifoFields(i) # {}

(***************************************************************************)
(* C9.                                                                     *)
(***************************************************************************)
\* C9 as stated: when fifo_test is not exactly "true", the dispatcher makes
\* exactly one send, with messageNum "1", whatever fifo_num_of_messages is.
\* The statement is taken for the runs whose session and client were
\* built, the reading most favourable to it.
C9_Original ==
    (Terminated /\ SessionBuilt /\ params["fifo_test"] # S_true) =>
        /\ Len(sent) = 1
        /\ CarriesStamp(1, 1)

\* C9 amended: when fifo_test is not exactly "true", the dispatcher makes
\* at most one send, with messageNum "1", whatever fifo_num_of_messages
\* is, and exactly one provided the session and the client were built, the
\* attributes are a JSON object and queue_url is set.
C9_Amended ==
    (Dispatched /\ params["fifo_test"] # S_true) =>
        /\ Len(sent) <= 1
        /\ \A k \in 1..Len(sent) : CarriesStamp(k, 1)
        /\ error \notin {"ValueError"}
        /\ (Terminated /\ SessionBuilt /\ IterationCanSend) => Len(sent) = 1

\* C9 witness: fifo_test is "True" and the count is no number; one send
C9_Witness ==
    /\ pc = "done"
    /\ params["fifo_test"] = S_True
    /\ params["fifo_num_of_messages"] = S_abc
    /\ Len(sent) = 1

(***************************************************************************)
(* C10.                                                                    *)
(***************************************************************************)
\* the attribute mapping of the attributes file
LoadedAttributes == fs[params["message_attributes"]].value

\* C10: every send carries the resolved queue_url, the body as read from
\* the body file, every attribute of the attributes file other than
\* messageNum unchanged, and messageNum as the sequence stamp, also when
\* the file had a messageNum entry.
C10_OnlyStampChanges ==
    \A i \in 1..Len(sent) :
        /\ sent[i].kwargs.QueueUrl = params["queue_url"]
        /\ sent[i].kwargs.MessageBody = TextRead(fs[params["message_body"]].raw)
        /\ DOMAIN AttributesOf(i) = DOMAIN LoadedAttributes \cup {"messageNum"}
        /\ \A name \in DOMAIN LoadedAttributes \ {"messageNum"} :
              AttributesOf(i)[name] = LoadedAttributes[name]
        /\ CarriesStamp(i, i)

\* C10 witness: two sends from a file holding traceId and a messageNum
C10_Witness ==
    /\ Len(sent) >= 2
    /\ DOMAIN LoadedAttributes = {"traceId", "messageNum"}
    /\ LoadedAttributes["messageNum"].DataType = "Number"
    /\ AttributesOf(2)["traceId"] = LoadedAttributes["traceId"]
    /\ AttributesOf(2)["messageNum"].DataType = "String"

====
